---- MODULE Spec2Model ----
(***************************************************************************)
(* Calculator (src/app/calculation/__init__.py): live history, undo/redo   *)
(* memento stacks, observer list, operation strategy and the persisted     *)
(* history file.  Python lists are objects: `heap` maps a list identity to *)
(* its contents, `history` and every memento hold an identity, so that     *)
(* copying, rebinding and in-place mutation are told apart.                *)
(***************************************************************************)
EXTENDS Integers, Sequences, FiniteSets, TLC

VARIABLES heap, history, undo_stack, redo_stack, operation_strategy,
          observers, history_file, budget, ret, notified, calls, pure, scn,
          before, memo, config, repl

vars == <<heap, history, undo_stack, redo_stack, operation_strategy,
          observers, history_file, budget, ret, notified, calls, pure, scn,
          before, memo, config, repl>>

\* the Calculator
calculator == <<heap, history, undo_stack, redo_stack, operation_strategy,
                observers, history_file, budget, ret, notified, calls, pure, scn,
                before>>

(* ------------------------------ bounds --------------------------------- *)
\* the number of calls made on a Calculator in one run
MaxCalls == 6
\* the number of calls made from a state drawn by InitAny
MaxCallsAny == 3
\* the depth of a stack in a state drawn by InitAny
MaxStack == 1
\* the length of the history of a memento that is converted to a dictionary
MaxMementoLen == 2
\* the number of lines the REPL reads
MaxLines == 3

(* ------------------------- numbers (float) ----------------------------- *)
RECURSIVE Gcd(_, _)
Gcd(x, y) == IF y = 0 THEN x ELSE Gcd(y, x % y)

\* a float value, kept exactly as a reduced fraction num/den
Frac(n, d) == [num |-> n \div Gcd(n, d), den |-> d \div Gcd(n, d)]

\* float(a) for an int operand
Float(a) == Frac(a, 1)

NoValue == [num |-> 0, den |-> 0]

(* ---------------------- operation strategies --------------------------- *)
None == "None"
Strategies == {"Addition", "Multiplication", "Division", "Faulty"}
Operands == {<<2, 3>>, <<4, 5>>, <<1, 0>>}

\* Operation.execute(a, b): the result, or the error it raises
Execute(op, a, b) ==
    CASE op = "Addition" ->
           [kind |-> "ok", value |-> Frac(a.num * b.den + b.num * a.den, a.den * b.den), msg |-> <<>>]
      [] op = "Multiplication" ->
           [kind |-> "ok", value |-> Frac(a.num * b.num, a.den * b.den), msg |-> <<>>]
      [] op = "Division" ->
           IF b.num = 0
           THEN [kind |-> "ValidationError", value |-> NoValue, msg |-> <<"Division by zero is not allowed">>]
           ELSE [kind |-> "ok", value |-> Frac(a.num * b.den, a.den * b.num), msg |-> <<>>]
      [] op = "Faulty" ->
           [kind |-> "Exception", value |-> NoValue, msg |-> <<"strategy failure">>]
      [] OTHER ->
           [kind |-> "Exception", value |-> NoValue,
            msg |-> <<"'NoneType' object has no attribute 'execute'">>]

(* --------------------------- timestamps -------------------------------- *)
Micro == 1000000

\* the readings of datetime.datetime.now(), in microseconds
Times == {1500000}

\* datetime.isoformat(): the fractional part is written only when non-zero
IsoFormat(t) == IF t % Micro = 0 THEN <<t \div Micro>> ELSE <<t \div Micro, t % Micro>>

\* datetime.fromisoformat()
FromIsoFormat(s) == IF Len(s) = 1 THEN s[1] * Micro ELSE s[1] * Micro + s[2]

(* ---------------------------- Calculation ------------------------------ *)
Calculation(op, a, b, r, t) ==
    [operation |-> op, operand1 |-> a, operand2 |-> b, result |-> r, timestamp |-> t]

\* a row of the history file, as save_history builds it
Row(c) ==
    [operation |-> c.operation, operand1 |-> c.operand1, operand2 |-> c.operand2,
     result |-> c.result, timestamp |-> IsoFormat(c.timestamp)]

\* Calculation.from_dict(row)
FromDict(row) ==
    Calculation(row.operation, row.operand1, row.operand2, row.result,
                FromIsoFormat(row.timestamp))

(* ------------------------------ the heap ------------------------------- *)
MementoIds(stack) == {stack[i].history : i \in 1..Len(stack)}

StackIds == MementoIds(undo_stack) \cup MementoIds(redo_stack)

\* the contents of the live history
Contents == heap[history]

\* the histories stored on a stack, bottom first
Stored(stack) == [i \in 1..Len(stack) |-> heap[stack[i].history]]

\* identity of a newly allocated list
Fresh(used) == CHOOSE i \in 1..(Cardinality(used) + 1) :
                  i \notin used /\ \A j \in 1..(i - 1) : j \in used

\* list.copy(): a new list with the same contents
ListCopy(h, src, dst) == [i \in DOMAIN h \cup {dst} |-> IF i = dst THEN h[src] ELSE h[i]]

\* what stays allocated after a step: the lists the calculator references,
\* and the lists of the mementos that were on a stack when the step began
Retain(h, keep) == [i \in keep \cap DOMAIN h |-> h[i]]

Kept == {history'} \cup MementoIds(undo_stack') \cup MementoIds(redo_stack') \cup StackIds

(* ---------------------------- the file --------------------------------- *)
Absent == [kind |-> "absent", rows |-> <<>>]
Malformed == [kind |-> "malformed", rows |-> <<>>]
Blank == [kind |-> "blank", rows |-> <<>>]

\* pd.DataFrame(history_data).to_csv(history_file, index=False)
ToCsv(cs) == IF cs = <<>> THEN Blank
             ELSE [kind |-> "rows", rows |-> [i \in 1..Len(cs) |-> Row(cs[i])]]

\* pd.read_csv + Calculation.from_dict per record: the history, or a failure
ReadCsv(f) == IF f.kind = "rows"
              THEN [ok |-> TRUE, history |-> [i \in 1..Len(f.rows) |-> FromDict(f.rows[i])]]
              ELSE [ok |-> FALSE, history |-> <<>>]

(* ------------------------- call outcomes ------------------------------- *)
Ret(call, outcome, msg, value, args) ==
    [call |-> call, outcome |-> outcome, msg |-> msg, value |-> value, args |-> args]

NoArgs == <<>>

(* ----------------------- ghost bookkeeping ----------------------------- *)
\* progress through the scenario add(2,3); multiply(4,5); undo(); redo()
Off == "off"

NoBefore == [step |-> "none", history |-> <<>>, undo |-> <<>>, redo |-> <<>>]

\* one more call has been made
Called == /\ budget > 0
          /\ budget' = budget - 1
          /\ UNCHANGED <<memo, config, repl>>

\* the calls that do not touch history or stacks leave the bookkeeping alone
GhostKeep == UNCHANGED <<calls, pure, scn, before>>

\* a call other than perform_operation that touches history or stacks
GhostBreak == /\ calls' = <<>>
              /\ pure' = FALSE

(* ------------------------------ observers ------------------------------ *)
ObserverKinds == {"LoggingObserver", "AutoSaveObserver"}

\* the observers whose update may raise: the auto-save observer when saving
\* fails, and an observer of the caller's own that raises ValidationError
RaisingKinds == {"AutoSaveObserver", "RaisingObserver"}

\* HistoryObserver.update(calculation): TRUE when it raises.  The logging
\* observer never raises.
UpdateRaises(o, fails) == o \in RaisingKinds /\ fails

\* what the update of observer o raises when it fails
UpdateError(o) ==
    IF o = "RaisingObserver"
    THEN [kind |-> "ValidationError", msg |-> <<"observer failure">>]
    ELSE [kind |-> "OperationError", msg |-> <<"Failed to save history: ">>]

NoError == [kind |-> "none", msg |-> <<>>]

\* the file after observer o has been updated with the history contents cs
UpdateFile(o, f, cs, saveFails) ==
    IF o = "AutoSaveObserver" /\ ~saveFails THEN ToCsv(cs) ELSE f

\* the observers are updated last first
RECURSIVE NotifyBackwards(_, _, _, _, _, _)
NotifyBackwards(obs, i, calc, cs, f, failAt) ==
    IF i > Len(obs)
    THEN [invoked |-> <<>>, file |-> f, raised |-> FALSE, error |-> NoError]
    ELSE LET k == Len(obs) + 1 - i
             o == obs[k]
             note == [observer |-> o, calculation |-> calc, length |-> Len(cs)]
         IN IF UpdateRaises(o, k = failAt)
            THEN [invoked |-> <<note>>, file |-> f, raised |-> TRUE, error |-> UpdateError(o)]
            ELSE LET rest == NotifyBackwards(obs, i + 1, calc, cs,
                                             UpdateFile(o, f, cs, k = failAt), failAt)
                 IN [invoked |-> <<note>> \o rest.invoked, file |-> rest.file,
                     raised |-> rest.raised, error |-> rest.error]

\* an update that raises does not stop the loop: the later observers are
\* updated too, and the failure is raised at the end
RECURSIVE NotifyAll(_, _, _, _, _, _)
NotifyAll(obs, i, calc, cs, f, failAt) ==
    IF i > Len(obs)
    THEN [invoked |-> <<>>, file |-> f, raised |-> FALSE, error |-> NoError]
    ELSE LET o == obs[i]
             note == [observer |-> o, calculation |-> calc, length |-> Len(cs)]
             failed == UpdateRaises(o, i = failAt)
             rest == NotifyAll(obs, i + 1, calc, cs,
                               IF failed THEN f ELSE UpdateFile(o, f, cs, i = failAt),
                               failAt)
         IN [invoked |-> <<note>> \o rest.invoked, file |-> rest.file,
             raised |-> failed \/ rest.raised,
             error |-> IF failed THEN UpdateError(o) ELSE rest.error]

\* notify_observers(calculation): observers are updated in list order until
\* one raises; failAt is the position whose update raises (0: none does)
RECURSIVE NotifyObservers(_, _, _, _, _, _)
NotifyObservers(obs, i, calc, cs, f, failAt) ==
    IF i > Len(obs)
    THEN [invoked |-> <<>>, file |-> f, raised |-> FALSE, error |-> NoError]
    ELSE LET o == obs[i]
             note == [observer |-> o, calculation |-> calc, length |-> Len(cs)]
         IN IF UpdateRaises(o, i = failAt)
            THEN [invoked |-> <<note>>, file |-> f, raised |-> TRUE, error |-> UpdateError(o)]
            ELSE LET rest == NotifyObservers(obs, i + 1, calc, cs,
                                             UpdateFile(o, f, cs, i = failAt), failAt)
                 IN [invoked |-> <<note>> \o rest.invoked, file |-> rest.file,
                     raised |-> rest.raised, error |-> rest.error]

(* --------------------------- Calculator -------------------------------- *)
CalculatorMemento(h, t) == [history |-> h, timestamp |-> t]

\* str(self.operation_strategy)
Str(op) == op

\* Calculator.set_operation
SetOperation(op) ==
    /\ Called
    /\ operation_strategy' = op
    /\ ret' = Ret("set_operation", "ok", <<>>, NoValue, NoArgs)
    /\ notified' = <<>>
    /\ UNCHANGED <<history, undo_stack, redo_stack, observers, history_file>>
    /\ GhostKeep
    /\ heap' = Retain(heap, Kept)

\* Calculator.add_observer
AddObserver(o) ==
    /\ Called
    /\ observers' = Append(observers, o)
    /\ ret' = Ret("add_observer", "ok", <<>>, NoValue, NoArgs)
    /\ notified' = <<>>
    /\ UNCHANGED <<history, undo_stack, redo_stack, operation_strategy, history_file>>
    /\ GhostKeep
    /\ heap' = Retain(heap, Kept)

\* every occurrence of x is dropped
ListRemoveAll(s, x) == SelectSeq(s, LAMBDA y : y # x)

\* list.remove(x): drops the first occurrence of x
RECURSIVE ListRemove(_, _)
ListRemove(s, x) ==
    IF s = <<>> THEN <<>>
    ELSE IF Head(s) = x THEN Tail(s)
    ELSE <<Head(s)>> \o ListRemove(Tail(s), x)

\* Calculator.remove_observer
RemoveObserver(o) ==
    /\ Called
    /\ IF \E i \in 1..Len(observers) : observers[i] = o
       THEN /\ observers' = ListRemove(observers, o)
            /\ ret' = Ret("remove_observer", "ok", <<>>, NoValue, <<o>>)
       ELSE /\ observers' = observers
            /\ ret' = Ret("remove_observer", "ValueError", <<"list.remove(x): x not in list">>, NoValue, <<o>>)
    /\ notified' = <<>>
    /\ UNCHANGED <<history, undo_stack, redo_stack, operation_strategy, history_file>>
    /\ GhostKeep
    /\ heap' = Retain(heap, Kept)

\* the strategy check is missing
StrategyAlwaysSet(op) == TRUE

\* `if not self.operation_strategy`
StrategySet(op) == op # None

\* the calculation is inserted at the front
ListInsertFront(h, live, c) == [h EXCEPT ![live] = <<c>> \o @]

\* self.history.append(calculation)
ListAppend(h, live, c) == [h EXCEPT ![live] = Append(@, c)]

\* the `except ValidationError` clause is missing: every failure is wrapped
RaisedWrapped(r) ==
    [outcome |-> "OperationError", msg |-> <<"Operation failed: ">> \o r.msg]

\* the except clauses of perform_operation: what the caller gets when the
\* try block raises r
Raised(r) ==
    IF r.kind = "ValidationError"
    THEN [outcome |-> "ValidationError", msg |-> r.msg]
    ELSE [outcome |-> "OperationError", msg |-> <<"Operation failed: ">> \o r.msg]

\* the outcome of perform_operation(a, b) with strategy op on heap h:
\* the new heap, the file, the observers invoked and what the caller gets
PerformCore(h, live, op, obs, f, a, b, t, failAt) ==
    IF ~StrategySet(op)
    THEN [heap |-> h, file |-> f, invoked |-> <<>>,
          ret |-> Ret("perform_operation", "OperationError", <<"No operation set">>, NoValue, <<a, b>>)]
    ELSE LET r == Execute(op, Float(a), Float(b))
             calculation == Calculation(Str(op), Float(a), Float(b), r.value, t)
             h1 == ListAppend(h, live, calculation)
             n == NotifyObservers(obs, 1, calculation, h1[live], f, failAt)
         IN IF r.kind # "ok"
            THEN [heap |-> h, file |-> f, invoked |-> <<>>,
                  ret |-> Ret("perform_operation", Raised(r).outcome, Raised(r).msg,
                              NoValue, <<a, b>>)]
            ELSE [heap |-> h1, file |-> n.file, invoked |-> n.invoked,
                  ret |-> IF n.raised
                          THEN Ret("perform_operation", Raised(n.error).outcome,
                                   Raised(n.error).msg, NoValue, <<a, b>>)
                          ELSE Ret("perform_operation", "ok", <<>>, r.value, <<a, b>>)]

\* redo_stack is cleared when a calculation is performed
PerformStacksClearRedo(us, rs) == [undo_stack |-> us, redo_stack |-> <<>>]

\* the stacks after perform_operation: it assigns to neither and pushes nothing
PerformStacks(us, rs) == [undo_stack |-> us, redo_stack |-> rs]

\* Calculator.perform_operation
PerformOperation(a, b) ==
    /\ Called
    /\ \E failAt \in 0..Len(observers), t \in Times :
         /\ failAt > 0 => observers[failAt] \in RaisingKinds
         /\ LET p == PerformCore(heap, history, operation_strategy, observers,
                                 history_file, a, b, t, failAt)
                appended == p.heap[history] # heap[history]
                call == [operation |-> Str(operation_strategy), operand1 |-> a,
                         operand2 |-> b, result |-> p.ret.value]
            IN /\ history_file' = p.file
               /\ notified' = p.invoked
               /\ ret' = p.ret
               /\ IF p.ret.outcome = "ok"
                  THEN /\ calls' = IF pure THEN Append(calls, call) ELSE <<>>
                       /\ pure' = pure
                  ELSE IF appended
                  THEN GhostBreak
                  ELSE UNCHANGED <<calls, pure>>
               /\ scn' = IF p.ret.outcome = "ok" /\ scn = "start"
                            /\ call.operation = "Addition" /\ <<a, b>> = <<2, 3>>
                         THEN "added"
                         ELSE IF p.ret.outcome = "ok" /\ scn = "added"
                            /\ call.operation = "Multiplication" /\ <<a, b>> = <<4, 5>>
                         THEN "multiplied"
                         ELSE Off
               /\ before' = NoBefore
               /\ undo_stack' = PerformStacks(undo_stack, redo_stack).undo_stack
               /\ redo_stack' = PerformStacks(undo_stack, redo_stack).redo_stack
               /\ UNCHANGED <<history, operation_strategy, observers>>
               /\ heap' = Retain(p.heap, Kept)

\* the snapshot is pushed onto redo_stack before undo_stack is looked at
UndoCoreEagerPush(h, live, us, rs, t) ==
    LET saved == Fresh(DOMAIN h)
        h1 == ListCopy(h, live, saved)
        pushed == Append(rs, CalculatorMemento(saved, t))
    IN IF us = <<>>
       THEN [heap |-> h1, history |-> live, undo_stack |-> us, redo_stack |-> pushed,
             returned |-> FALSE]
       ELSE LET memento == us[Len(us)]
                restored == Fresh(DOMAIN h1)
                h2 == ListCopy(h1, memento.history, restored)
            IN [heap |-> h2, history |-> restored,
                undo_stack |-> SubSeq(us, 1, Len(us) - 1),
                redo_stack |-> pushed, returned |-> TRUE]

\* the history is restored before the snapshot for redo_stack is taken
UndoCoreLateSnapshot(h, live, us, rs, t) ==
    IF us = <<>>
    THEN [heap |-> h, history |-> live, undo_stack |-> us, redo_stack |-> rs,
          returned |-> FALSE]
    ELSE LET memento == us[Len(us)]
             restored == Fresh(DOMAIN h)
             h1 == ListCopy(h, memento.history, restored)
             saved == Fresh(DOMAIN h1)
             h2 == ListCopy(h1, restored, saved)
         IN [heap |-> h2, history |-> restored,
             undo_stack |-> SubSeq(us, 1, Len(us) - 1),
             redo_stack |-> Append(rs, CalculatorMemento(saved, t)),
             returned |-> TRUE]

\* the history is restored by reference: `self.history = memento.history`
UndoCoreNoCopy(h, live, us, rs, t) ==
    IF us = <<>>
    THEN [heap |-> h, history |-> live, undo_stack |-> us, redo_stack |-> rs,
          returned |-> FALSE]
    ELSE LET memento == us[Len(us)]
             saved == Fresh(DOMAIN h)
             h1 == ListCopy(h, live, saved)
         IN [heap |-> h1, history |-> memento.history,
             undo_stack |-> SubSeq(us, 1, Len(us) - 1),
             redo_stack |-> Append(rs, CalculatorMemento(saved, t)),
             returned |-> TRUE]

\* undo(): the state it leaves and the value it returns
UndoCore(h, live, us, rs, t) ==
    IF us = <<>>
    THEN [heap |-> h, history |-> live, undo_stack |-> us, redo_stack |-> rs,
          returned |-> FALSE]
    ELSE LET memento == us[Len(us)]
             saved == Fresh(DOMAIN h)
             h1 == ListCopy(h, live, saved)
             restored == Fresh(DOMAIN h1)
             h2 == ListCopy(h1, memento.history, restored)
         IN [heap |-> h2, history |-> restored,
             undo_stack |-> SubSeq(us, 1, Len(us) - 1),
             redo_stack |-> Append(rs, CalculatorMemento(saved, t)),
             returned |-> TRUE]

\* Calculator.undo
Undo ==
    /\ Called
    /\ \E t \in Times :
         LET u == UndoCore(heap, history, undo_stack, redo_stack, t)
         IN /\ ret' = Ret("undo", IF u.returned THEN "True" ELSE "False", <<>>, NoValue, NoArgs)
            /\ history' = u.history
            /\ undo_stack' = u.undo_stack
            /\ redo_stack' = u.redo_stack
            /\ before' = IF u.returned
                         THEN [step |-> "undone", history |-> Contents,
                               undo |-> Stored(undo_stack), redo |-> Stored(redo_stack)]
                         ELSE NoBefore
            /\ heap' = Retain(u.heap, Kept)
    /\ notified' = <<>>
    /\ GhostBreak
    /\ scn' = IF scn = "multiplied" THEN "undone" ELSE Off
    /\ UNCHANGED <<operation_strategy, observers, history_file>>

\* the snapshot is pushed onto undo_stack before redo_stack is looked at
RedoCoreEagerPush(h, live, us, rs, t) ==
    LET saved == Fresh(DOMAIN h)
        h1 == ListCopy(h, live, saved)
        pushed == Append(us, CalculatorMemento(saved, t))
    IN IF rs = <<>>
       THEN [heap |-> h1, history |-> live, undo_stack |-> pushed, redo_stack |-> rs,
             returned |-> FALSE]
       ELSE LET memento == rs[Len(rs)]
                restored == Fresh(DOMAIN h1)
                h2 == ListCopy(h1, memento.history, restored)
            IN [heap |-> h2, history |-> restored, undo_stack |-> pushed,
                redo_stack |-> SubSeq(rs, 1, Len(rs) - 1), returned |-> TRUE]

\* the memento is taken from the bottom of redo_stack
RedoCorePopBottom(h, live, us, rs, t) ==
    IF rs = <<>>
    THEN [heap |-> h, history |-> live, undo_stack |-> us, redo_stack |-> rs,
          returned |-> FALSE]
    ELSE LET memento == rs[1]
             saved == Fresh(DOMAIN h)
             h1 == ListCopy(h, live, saved)
             restored == Fresh(DOMAIN h1)
             h2 == ListCopy(h1, memento.history, restored)
         IN [heap |-> h2, history |-> restored,
             undo_stack |-> Append(us, CalculatorMemento(saved, t)),
             redo_stack |-> Tail(rs),
             returned |-> TRUE]

\* redo(): the state it leaves and the value it returns
RedoCore(h, live, us, rs, t) ==
    IF rs = <<>>
    THEN [heap |-> h, history |-> live, undo_stack |-> us, redo_stack |-> rs,
          returned |-> FALSE]
    ELSE LET memento == rs[Len(rs)]
             saved == Fresh(DOMAIN h)
             h1 == ListCopy(h, live, saved)
             restored == Fresh(DOMAIN h1)
             h2 == ListCopy(h1, memento.history, restored)
         IN [heap |-> h2, history |-> restored,
             undo_stack |-> Append(us, CalculatorMemento(saved, t)),
             redo_stack |-> SubSeq(rs, 1, Len(rs) - 1),
             returned |-> TRUE]

\* Calculator.redo
Redo ==
    /\ Called
    /\ \E t \in Times :
         LET r == RedoCore(heap, history, undo_stack, redo_stack, t)
         IN /\ ret' = Ret("redo", IF r.returned THEN "True" ELSE "False", <<>>, NoValue, NoArgs)
            /\ history' = r.history
            /\ undo_stack' = r.undo_stack
            /\ redo_stack' = r.redo_stack
            /\ before' = IF r.returned /\ before.step = "undone"
                         THEN [before EXCEPT !.step = "redone"]
                         ELSE NoBefore
            /\ heap' = Retain(r.heap, Kept)
    /\ notified' = <<>>
    /\ GhostBreak
    /\ scn' = IF scn = "undone" THEN "redone" ELSE Off
    /\ UNCHANGED <<operation_strategy, observers, history_file>>

\* redo_stack is not cleared
ClearCoreKeepsRedo(h, live, us, rs) ==
    [heap |-> [h EXCEPT ![live] = <<>>], history |-> live,
     undo_stack |-> <<>>, redo_stack |-> rs]

\* the state after clear_history()
ClearCore(h, live, us, rs) ==
    [heap |-> [h EXCEPT ![live] = <<>>], history |-> live,
     undo_stack |-> <<>>, redo_stack |-> <<>>]

\* Calculator.clear_history
ClearHistory ==
    LET c == ClearCore(heap, history, undo_stack, redo_stack)
    IN /\ Called
       /\ history' = c.history
       /\ undo_stack' = c.undo_stack
       /\ redo_stack' = c.redo_stack
       /\ ret' = Ret("clear_history", "ok", <<>>, NoValue, NoArgs)
       /\ notified' = <<>>
       /\ GhostBreak
       /\ scn' = Off
       /\ before' = [step |-> "cleared", history |-> Contents,
                     undo |-> Stored(undo_stack), redo |-> Stored(redo_stack)]
       /\ UNCHANGED <<operation_strategy, observers, history_file>>
       /\ heap' = Retain(c.heap, Kept)

\* Calculator.save_history
SaveHistory ==
    /\ Called
    /\ \E fails \in BOOLEAN :
         IF fails
         THEN /\ history_file' = history_file
              /\ ret' = Ret("save_history", "OperationError", <<"Failed to save history: ">>, NoValue, NoArgs)
         ELSE /\ history_file' = ToCsv(Contents)
              /\ ret' = Ret("save_history", "ok", <<>>, NoValue, NoArgs)
    /\ notified' = <<>>
    /\ GhostKeep
    /\ UNCHANGED <<history, undo_stack, redo_stack, operation_strategy, observers>>
    /\ heap' = Retain(heap, Kept)

\* the file is read without looking whether it exists
LoadCoreNoExists(h, live, f) ==
    LET r == ReadCsv(f)
        loaded == Fresh(DOMAIN h)
    IN IF r.ok
       THEN [heap |-> [i \in DOMAIN h \cup {loaded} |->
                         IF i = loaded THEN r.history ELSE h[i]],
             history |-> loaded, outcome |-> "ok", msg |-> <<>>]
       ELSE [heap |-> h, history |-> live, outcome |-> "OperationError",
             msg |-> <<"Failed to load history: ">>]

\* the outcome of load_history() on file f
LoadCore(h, live, f) ==
    IF f.kind = "absent"
    THEN [heap |-> h, history |-> live, outcome |-> "ok", msg |-> <<>>]
    ELSE LET r == ReadCsv(f)
             loaded == Fresh(DOMAIN h)
         IN IF r.ok
            THEN [heap |-> [i \in DOMAIN h \cup {loaded} |->
                              IF i = loaded THEN r.history ELSE h[i]],
                  history |-> loaded, outcome |-> "ok", msg |-> <<>>]
            ELSE [heap |-> h, history |-> live, outcome |-> "OperationError",
                  msg |-> <<"Failed to load history: ">>]

\* Calculator.load_history
LoadHistory ==
    LET l == LoadCore(heap, history, history_file)
    IN /\ Called
       /\ history' = l.history
       /\ ret' = Ret("load_history", l.outcome, l.msg, NoValue, NoArgs)
       /\ notified' = <<>>
       /\ GhostBreak
       /\ scn' = Off
       /\ before' = NoBefore
       /\ UNCHANGED <<undo_stack, redo_stack, operation_strategy, observers, history_file>>
       /\ heap' = Retain(l.heap, Kept)

(* ----------------- parts that are not a Calculator --------------------- *)
NoMemo == [stage |-> "none", memento |-> [history |-> <<>>, timestamp |-> 0],
           dict |-> [history |-> <<>>, timestamp |-> <<>>],
           rebuilt |-> [history |-> <<>>, timestamp |-> 0]]

NoConfig == [stage |-> "none", given |-> <<>>, fields |-> <<>>, error |-> "none"]

NoRepl == [running |-> FALSE, nlines |-> 0, last |-> <<>>, printed |-> <<>>, out |-> <<>>]

(* ------------------------- construction -------------------------------- *)
\* the history files a Calculator may find when it is constructed
InitFiles == {Absent, Malformed, Blank,
              ToCsv(<<Calculation("Addition", Float(2), Float(3), Float(5), 0)>>)}

\* the constructor does not load the file
ConstructedNoLoad(f) == <<>>

\* the live history the constructor leaves with file f: `self.history = []`,
\* then load_history() in a try block whose failure is only logged
Constructed(f) ==
    LET l == LoadCore([i \in {1} |-> <<>>], 1, f)
    IN l.heap[l.history]

\* Calculator.__init__: empty stacks, no observers, no strategy; the history
\* is loaded from the file and a failure to load is swallowed
Init ==
    /\ history_file \in InitFiles
    /\ history = 1
    /\ heap = [i \in {1} |-> Constructed(history_file)]
    /\ undo_stack = <<>>
    /\ redo_stack = <<>>
    /\ operation_strategy = None
    /\ observers = <<>>
    /\ budget = MaxCalls
    /\ ret = Ret("__init__", "ok", <<>>, NoValue, NoArgs)
    /\ notified = <<>>
    /\ calls = <<>>
    /\ pure = (heap[1] = <<>>)
    /\ scn = IF heap[1] = <<>> THEN "start" ELSE Off
    /\ before = NoBefore
    /\ memo = NoMemo
    /\ config = NoConfig
    /\ repl = NoRepl

Next ==
    \/ \E op \in Strategies : SetOperation(op)
    \/ \E o \in ObserverKinds : AddObserver(o)
    \/ \E o \in ObserverKinds : RemoveObserver(o)
    \/ \E ab \in Operands : PerformOperation(ab[1], ab[2])
    \/ Undo
    \/ Redo
    \/ ClearHistory
    \/ SaveHistory
    \/ LoadHistory

Spec == Init /\ [][Next]_vars

(* --------------- any state of the public attributes -------------------- *)
SampleHistories ==
    {<<>>,
     <<Calculation("Addition", Float(2), Float(3), Float(5), 0),
       Calculation("Multiplication", Float(4), Float(5), Float(20), 0)>>}

SampleStacks == UNION {[1..n -> SampleHistories] : n \in 0..MaxStack}

\* history, undo_stack and redo_stack are public attributes: a state in which
\* each holds a list of its own, every memento owning its history
InitAny ==
    /\ \E live \in SampleHistories, us \in SampleStacks, rs \in SampleStacks :
         /\ history = 1
         /\ undo_stack = [i \in 1..Len(us) |-> CalculatorMemento(1 + i, 0)]
         /\ redo_stack = [i \in 1..Len(rs) |-> CalculatorMemento(1 + Len(us) + i, 0)]
         /\ heap = [i \in 1..(1 + Len(us) + Len(rs)) |->
                      IF i = 1 THEN live
                      ELSE IF i <= 1 + Len(us) THEN us[i - 1]
                      ELSE rs[i - 1 - Len(us)]]
    /\ history_file \in InitFiles
    /\ operation_strategy = None
    /\ observers = <<>>
    /\ budget = MaxCallsAny
    /\ ret = Ret("none", "ok", <<>>, NoValue, NoArgs)
    /\ notified = <<>>
    /\ calls = <<>>
    /\ pure = FALSE
    /\ scn = Off
    /\ before = NoBefore
    /\ memo = NoMemo
    /\ config = NoConfig
    /\ repl = NoRepl

SpecAny == InitAny /\ [][Next]_vars

(* ------------------ observers registered beforehand -------------------- *)
\* the number of calls made from a state drawn by InitObservers
MaxCallsObservers == 2
\* the number of observers registered in a state drawn by InitObservers
MaxObservers == 2

AnyObserverKinds == ObserverKinds \cup RaisingKinds

\* a Calculator on which set_operation and add_observer have been called,
\* observers of the caller's own included
InitObservers ==
    /\ history_file \in InitFiles
    /\ history = 1
    /\ heap = [i \in {1} |-> Constructed(history_file)]
    /\ undo_stack = <<>>
    /\ redo_stack = <<>>
    /\ operation_strategy \in {"Addition", "Division"}
    /\ observers \in UNION {[1..n -> AnyObserverKinds] : n \in 0..MaxObservers}
    /\ budget = MaxCallsObservers
    /\ ret = Ret("add_observer", "ok", <<>>, NoValue, NoArgs)
    /\ notified = <<>>
    /\ calls = <<>>
    /\ pure = FALSE
    /\ scn = Off
    /\ before = NoBefore
    /\ memo = NoMemo
    /\ config = NoConfig
    /\ repl = NoRepl

SpecObservers == InitObservers /\ [][Next]_vars

(* ------------------- memento to and from a dictionary ------------------ *)
\* a Calculator on which no call is made
Idle ==
    /\ history = 1
    /\ heap = [i \in {1} |-> <<>>]
    /\ undo_stack = <<>>
    /\ redo_stack = <<>>
    /\ operation_strategy = None
    /\ observers = <<>>
    /\ history_file = Absent
    /\ budget = 0
    /\ ret = Ret("none", "ok", <<>>, NoValue, NoArgs)
    /\ notified = <<>>
    /\ calls = <<>>
    /\ pure = FALSE
    /\ scn = Off
    /\ before = NoBefore

\* Calculation.to_dict()
CalcToDict(c) ==
    [operation |-> c.operation, operand1 |-> c.operand1, operand2 |-> c.operand2,
     result |-> c.result, timestamp |-> IsoFormat(c.timestamp)]

\* CalculatorMemento.to_dict()
MementoToDict(m) ==
    [history |-> [i \in 1..Len(m.history) |-> CalcToDict(m.history[i])],
     timestamp |-> IsoFormat(m.timestamp)]

\* the timestamp is not passed on: the memento gets the time of its creation
MementoFromDictNow(d) ==
    CalculatorMemento([i \in 1..Len(d.history) |-> FromDict(d.history[i])],
                      CHOOSE t \in Times : TRUE)

\* CalculatorMemento.from_dict(data)
MementoFromDict(d) ==
    CalculatorMemento([i \in 1..Len(d.history) |-> FromDict(d.history[i])],
                      FromIsoFormat(d.timestamp))

\* the calculations and the timestamps of the mementos that are converted
MementoCalcs ==
    {Calculation("Addition", Float(2), Float(3), Float(5), 0),
     Calculation("Multiplication", Float(4), Float(5), Float(20), 1500000),
     Calculation("Division", Float(2), Float(3), Frac(2, 3), 2000001)}

MementoTimes == {0, 1500000, 3000007}

MementoHistories == UNION {[1..n -> MementoCalcs] : n \in 0..MaxMementoLen}

InitMemento ==
    /\ Idle
    /\ \E h \in MementoHistories, t \in MementoTimes :
         memo = [NoMemo EXCEPT !.stage = "drawn", !.memento = CalculatorMemento(h, t)]
    /\ config = NoConfig
    /\ repl = NoRepl

ToDict ==
    /\ memo.stage = "drawn"
    /\ memo' = [memo EXCEPT !.stage = "dict", !.dict = MementoToDict(memo.memento)]
    /\ UNCHANGED <<calculator, config, repl>>

FromDictCall ==
    /\ memo.stage = "dict"
    /\ memo' = [memo EXCEPT !.stage = "rebuilt", !.rebuilt = MementoFromDict(memo.dict)]
    /\ UNCHANGED <<calculator, config, repl>>

NextMemento == ToDict \/ FromDictCall

SpecMemento == InitMemento /\ [][NextMemento]_vars

(* --------------------------- CalculatorConfig -------------------------- *)
DefaultMaxHistorySize == 500
DefaultPrecision == 2
DefaultMaxInputValue == 1000000

\* an optional argument: <<>> is None, <<v>> is the value v
ConfigValues == {<<>>, <<-1>>, <<0>>, <<1>>, <<500>>}

\* `value or default`: None and zero are both falsy
OrDefault(arg, default) == IF arg = <<>> \/ arg[1] = 0 THEN default ELSE arg[1]

\* CalculatorConfig.__init__
ConfigInit(given) ==
    [max_history_size |-> OrDefault(given.max_history_size, DefaultMaxHistorySize),
     precision |-> OrDefault(given.precision, DefaultPrecision),
     max_input_value |-> OrDefault(given.max_input_value, DefaultMaxInputValue)]

\* CalculatorConfig.validate, called by Calculator.__init__
Validate(fields) ==
    IF fields.max_history_size <= 0 THEN "ConfigurationError"
    ELSE IF fields.max_input_value <= 0 THEN "ConfigurationError"
    ELSE IF fields.precision < 0 THEN "ConfigurationError"
    ELSE "ok"

InitConfig ==
    /\ Idle
    /\ \E h \in ConfigValues, pr \in ConfigValues, v \in ConfigValues :
         config = [NoConfig EXCEPT !.stage = "given",
                     !.given = [max_history_size |-> h, precision |-> pr,
                                max_input_value |-> v]]
    /\ memo = NoMemo
    /\ repl = NoRepl

\* CalculatorConfig(...)
BuildConfig ==
    /\ config.stage = "given"
    /\ config' = [config EXCEPT !.stage = "built", !.fields = ConfigInit(config.given)]
    /\ UNCHANGED <<calculator, memo, repl>>

\* Calculator(config): the configuration is validated first
ConstructWithConfig ==
    /\ config.stage = "built"
    /\ config' = [config EXCEPT !.stage = "constructed", !.error = Validate(config.fields)]
    /\ UNCHANGED <<calculator, memo, repl>>

NextConfig == BuildConfig \/ ConstructWithConfig

SpecConfig == InitConfig /\ [][NextConfig]_vars

(* ------------------------- the calculator() REPL ----------------------- *)
\* a line the user types: its whitespace-separated words, and whether it
\* begins or ends with whitespace
Line(padded, words) == [padded |-> padded, words |-> words]

ReplLines ==
    {Line(FALSE, <<"add", "2", "3">>), Line(FALSE, <<"subtract", "2", "3">>),
     Line(FALSE, <<"multiply", "2", "3">>), Line(FALSE, <<"divide", "10", "2">>),
     Line(FALSE, <<"divide", "1", "0">>), Line(FALSE, <<"divide", "0", "0.0">>),
     Line(FALSE, <<"modulus", "2", "3">>), Line(FALSE, <<"ADD", "2", "3">>),
     Line(FALSE, <<"add", "two", "three">>), Line(FALSE, <<"modulus", "two", "3">>),
     Line(FALSE, <<"add", "2">>), Line(FALSE, <<"add", "2", "3", "1">>),
     Line(FALSE, <<>>), Line(TRUE, <<"add", "2", "3">>),
     Line(FALSE, <<"exit">>), Line(FALSE, <<"EXIT">>), Line(FALSE, <<"Exit">>),
     Line(TRUE, <<"exit">>), Line(FALSE, <<"exit", "2", "3">>)}

\* str.lower()
Lower(w) == CASE w = "EXIT" -> "exit"
              [] w = "Exit" -> "exit"
              [] w = "ADD" -> "add"
              [] OTHER -> w

\* user_input.lower() == "exit"
IsExit(line) == ~line.padded /\ Len(line.words) = 1 /\ Lower(line.words[1]) = "exit"

\* str.split()
Split(line) == line.words

\* the words float() accepts, with their values
Numerals == ("0" :> Float(0)) @@ ("0.0" :> Float(0)) @@ ("1" :> Float(1))
            @@ ("2" :> Float(2)) @@ ("3" :> Float(3)) @@ ("10" :> Float(10))

\* float(w): <<value>>, or <<>> for ValueError
ParseFloat(w) == IF w \in DOMAIN Numerals THEN <<Numerals[w]>> ELSE <<>>

\* app.operations
addition(a, b) == Frac(a.num * b.den + b.num * a.den, a.den * b.den)
subtraction(a, b) == Frac(a.num * b.den - b.num * a.den, a.den * b.den)
multiplication(a, b) == Frac(a.num * b.num, a.den * b.den)
division(a, b) == IF b.num = 0 THEN [raised |-> TRUE, value |-> NoValue]
                  ELSE [raised |-> FALSE, value |-> Frac(a.num * b.den, a.den * b.num)]

\* a line written by print()
Printed(kind, value, text) == [kind |-> kind, value |-> value, text |-> text]

\* the ValueError of a division by zero is not caught
ReplBodyUncaught(line) ==
    IF IsExit(line)
    THEN [printed |-> <<Printed("Exiting", NoValue, <<>>)>>, running |-> FALSE]
    ELSE LET words == Split(line)
             parsed == Len(words) = 3 /\ ParseFloat(words[2]) # <<>>
                                      /\ ParseFloat(words[3]) # <<>>
             operation == words[1]
             num1 == ParseFloat(words[2])[1]
             num2 == ParseFloat(words[3])[1]
         IN IF ~parsed
            THEN [printed |-> <<Printed("Invalid input", NoValue, <<>>)>>, running |-> TRUE]
            ELSE IF operation = "add"
            THEN [printed |-> <<Printed("Result", addition(num1, num2), <<>>)>>, running |-> TRUE]
            ELSE IF operation = "subtract"
            THEN [printed |-> <<Printed("Result", subtraction(num1, num2), <<>>)>>, running |-> TRUE]
            ELSE IF operation = "multiply"
            THEN [printed |-> <<Printed("Result", multiplication(num1, num2), <<>>)>>, running |-> TRUE]
            ELSE IF operation = "divide"
            THEN IF division(num1, num2).raised
                 THEN [printed |-> <<>>, running |-> FALSE]
                 ELSE [printed |-> <<Printed("Result", division(num1, num2).value, <<>>)>>,
                       running |-> TRUE]
            ELSE [printed |-> <<Printed("Unknown operation", NoValue, <<operation>>)>>,
                  running |-> TRUE]

\* one pass through the body of `while True` with the line read: what is
\* printed, and whether the loop goes on
ReplBody(line) ==
    IF IsExit(line)
    THEN [printed |-> <<Printed("Exiting", NoValue, <<>>)>>, running |-> FALSE]
    ELSE LET words == Split(line)
             parsed == Len(words) = 3 /\ ParseFloat(words[2]) # <<>>
                                      /\ ParseFloat(words[3]) # <<>>
             operation == words[1]
             num1 == ParseFloat(words[2])[1]
             num2 == ParseFloat(words[3])[1]
         IN IF ~parsed
            THEN [printed |-> <<Printed("Invalid input", NoValue, <<>>)>>, running |-> TRUE]
            ELSE IF operation = "add"
            THEN [printed |-> <<Printed("Result", addition(num1, num2), <<>>)>>, running |-> TRUE]
            ELSE IF operation = "subtract"
            THEN [printed |-> <<Printed("Result", subtraction(num1, num2), <<>>)>>, running |-> TRUE]
            ELSE IF operation = "multiply"
            THEN [printed |-> <<Printed("Result", multiplication(num1, num2), <<>>)>>, running |-> TRUE]
            ELSE IF operation = "divide"
            THEN IF division(num1, num2).raised
                 THEN [printed |-> <<Printed("error", NoValue,
                                             <<"Division by zero is not allowed.">>)>>,
                       running |-> TRUE]
                 ELSE [printed |-> <<Printed("Result", division(num1, num2).value, <<>>)>>,
                       running |-> TRUE]
            ELSE [printed |-> <<Printed("Unknown operation", NoValue, <<operation>>)>>,
                  running |-> TRUE]

\* calculator() up to its first input(): the welcome message is printed
InitRepl ==
    /\ Idle
    /\ repl = [running |-> TRUE, nlines |-> 0, last |-> Line(FALSE, <<>>),
               printed |-> <<>>, out |-> <<Printed("Welcome", NoValue, <<>>)>>]
    /\ memo = NoMemo
    /\ config = NoConfig

\* input() returns line and the body of the loop runs
ReadLine(line) ==
    /\ repl.running
    /\ repl.nlines < MaxLines
    /\ LET b == ReplBody(line)
       IN repl' = [running |-> b.running, nlines |-> repl.nlines + 1, last |-> line,
                   printed |-> b.printed, out |-> repl.out \o b.printed]
    /\ UNCHANGED <<calculator, memo, config>>

NextRepl == \E line \in ReplLines : ReadLine(line)

SpecRepl == InitRepl /\ [][NextRepl]_vars

(* ============================== claims ================================= *)
\* a history entry without its timestamp
Entry(c) == <<c.operation, c.operand1, c.operand2, c.result>>

Entries(cs) == [i \in 1..Len(cs) |-> Entry(cs[i])]

Add23 == <<"Addition", Float(2), Float(3), Float(5)>>
Mul45 == <<"Multiplication", Float(4), Float(5), Float(20)>>

\* history and both stacks are what they were before the step
SameHistoryAndStacks ==
    /\ history' = history
    /\ heap'[history'] = heap[history]
    /\ undo_stack' = undo_stack
    /\ redo_stack' = redo_stack
    /\ Stored(undo_stack)' = Stored(undo_stack)
    /\ Stored(redo_stack)' = Stored(redo_stack)

\* C1: from an empty history and empty stacks, add(2,3) gives the history
\* [add,2,3,5]; multiply(4,5) then gives [add,2,3,5],[multiply,4,5,20]; undo()
\* then gives [add,2,3,5]; redo() then gives both entries again.
C1_Scenario ==
    /\ scn = "added" => Entries(Contents) = <<Add23>>
    /\ scn = "multiplied" => Entries(Contents) = <<Add23, Mul45>>
    /\ scn = "undone" => Entries(Contents) = <<Add23>>
    /\ scn = "redone" => Entries(Contents) = <<Add23, Mul45>>

\* C2: after N successful perform_operation calls on a history that started
\* empty, with nothing else touching the history, the history has N entries
\* and entry i records call i; a successful call appends one entry at the end
\* and leaves the earlier entries as they were.
C2_HistoryRecordsCalls ==
    /\ [](pure =>
            /\ Len(Contents) = Len(calls)
            /\ \A i \in 1..Len(calls) :
                 Entry(Contents[i]) = <<calls[i].operation, Float(calls[i].operand1),
                                        Float(calls[i].operand2), calls[i].result>>)
    /\ [][(ret'.call = "perform_operation" /\ ret'.outcome = "ok") =>
            /\ history' = history
            /\ Len(heap'[history']) = Len(Contents) + 1
            /\ SubSeq(heap'[history'], 1, Len(Contents)) = Contents]_vars

C2_Witness == pure /\ Len(calls) = 3 /\ calls[1] # calls[2]

\* C3: undo() on an empty undo_stack returns False and leaves history and
\* both stacks unchanged; redo() on an empty redo_stack likewise.
C3_EmptyStackNoOp ==
    [][/\ (ret'.call = "undo" /\ undo_stack = <<>>) =>
            (ret'.outcome = "False" /\ SameHistoryAndStacks)
       /\ (ret'.call = "redo" /\ redo_stack = <<>>) =>
            (ret'.outcome = "False" /\ SameHistoryAndStacks)]_vars

C3_Witness ==
    /\ ret.call = "undo"
    /\ ret.outcome = "False"
    /\ Contents # <<>>
    /\ redo_stack # <<>>

\* C4: a successful undo() followed by redo(), with no perform_operation or
\* clear_history in between, leaves the live history equal to what it was
\* before the undo and both stacks with the same stored histories.
C4_UndoRedoRoundTrip ==
    before.step = "redone" =>
        /\ Contents = before.history
        /\ Stored(undo_stack) = before.undo
        /\ Stored(redo_stack) = before.redo

C4_Witness ==
    /\ before.step = "redone"
    /\ ret.call = "redo"
    /\ Contents # <<>>
    /\ \E i \in 1..Len(undo_stack) : heap[undo_stack[i].history] # Contents

\* C5: clear_history() leaves history and both stacks empty and does not
\* change the observers or the strategy; an undo() or redo() right after it
\* returns False.
C5_ClearEmptiesAll ==
    [][/\ ret'.call = "clear_history" =>
            /\ heap'[history'] = <<>>
            /\ undo_stack' = <<>>
            /\ redo_stack' = <<>>
            /\ observers' = observers
            /\ operation_strategy' = operation_strategy
       /\ (ret.call = "clear_history" /\ ret'.call \in {"undo", "redo"}) =>
            ret'.outcome = "False"]_vars

C5_Witness ==
    /\ ret.call = "clear_history"
    /\ before.step = "cleared"
    /\ before.history # <<>>
    /\ before.undo # <<>>
    /\ before.redo # <<>>
    /\ observers # <<>>

\* C6: perform_operation with no strategy set fails with
\* OperationError("No operation set"), appends nothing, notifies no observer
\* and leaves both stacks unchanged.
C6_NoStrategy ==
    [][(ret'.call = "perform_operation" /\ operation_strategy = None) =>
            /\ ret'.outcome = "OperationError"
            /\ ret'.msg = <<"No operation set">>
            /\ notified' = <<>>
            /\ history_file' = history_file
            /\ SameHistoryAndStacks]_vars

C6_Witness ==
    /\ ret.call = "perform_operation"
    /\ ret.msg = <<"No operation set">>
    /\ observers # <<>>
    /\ undo_stack # <<>>

\* C7: a successful perform_operation updates the observers of the observer
\* list, one update per entry of the list and in list order, each with the
\* Calculation just appended and after the append; no other call updates an
\* observer.
C7_NotifyInOrder ==
    [][/\ (ret'.call = "perform_operation" /\ ret'.outcome = "ok") =>
            /\ Len(notified') = Len(observers)
            /\ \A i \in 1..Len(observers) :
                 /\ notified'[i].observer = observers[i]
                 /\ notified'[i].calculation = heap'[history'][Len(heap'[history'])]
                 /\ notified'[i].length = Len(Contents) + 1
       /\ ret'.call # "perform_operation" => notified' = <<>>]_vars

C7_Witness ==
    /\ ret.call = "perform_operation"
    /\ ret.outcome = "ok"
    /\ Len(notified) = 2
    /\ notified[1].observer # notified[2].observer

\* C8: when the strategy's execute fails, a ValidationError reaches the caller
\* as a ValidationError and any other failure as an OperationError carrying
\* the original message; nothing is appended, no observer is notified and
\* both stacks are unchanged.
C8_ExecuteFails ==
    [][(/\ ret'.call = "perform_operation"
        /\ operation_strategy # None
        /\ Execute(operation_strategy, Float(ret'.args[1]), Float(ret'.args[2])).kind # "ok") =>
         LET r == Execute(operation_strategy, Float(ret'.args[1]), Float(ret'.args[2]))
         IN /\ r.kind = "ValidationError" =>
                 (ret'.outcome = "ValidationError" /\ ret'.msg = r.msg)
            /\ r.kind # "ValidationError" =>
                 /\ ret'.outcome = "OperationError"
                 /\ \E k \in 1..Len(ret'.msg) :
                      SubSeq(ret'.msg, k, Len(ret'.msg)) = r.msg
            /\ notified' = <<>>
            /\ history_file' = history_file
            /\ SameHistoryAndStacks]_vars

C8_Witness ==
    /\ ret.call = "perform_operation"
    /\ ret.outcome = "ValidationError"
    /\ observers # <<>>
    /\ Contents # <<>>

\* C9: load_history with no history file raises nothing and leaves the
\* history as it was; load_history on a malformed file fails with
\* OperationError and leaves history and both stacks unchanged.
C9_LoadMissingOrMalformed ==
    [][ret'.call = "load_history" =>
            /\ history_file.kind = "absent" =>
                 (ret'.outcome = "ok" /\ SameHistoryAndStacks)
            /\ history_file.kind = "malformed" =>
                 (ret'.outcome = "OperationError" /\ SameHistoryAndStacks)]_vars

C9_Witness ==
    /\ ret.call = "load_history"
    /\ ret.outcome = "OperationError"
    /\ history_file.kind = "malformed"
    /\ Contents # <<>>
    /\ undo_stack # <<>>

\* C10: the history stored in a memento on a stack is never changed by a later
\* call, and the live history is never the list held by a memento that is on
\* a stack or that the call took off a stack.
C10_MementoFrozen ==
    /\ [](history \notin StackIds)
    /\ [][/\ history' \notin StackIds
          /\ \A i \in StackIds : i \in DOMAIN heap' /\ heap'[i] = heap[i]]_vars

C10_Witness ==
    /\ ret.call = "perform_operation"
    /\ ret.outcome = "ok"
    /\ \E i \in 1..Len(redo_stack) :
         /\ redo_stack[i].timestamp \in Times
         /\ Len(Contents) > 0
         /\ Contents # heap[redo_stack[i].history]

\* C11: for every memento m, from_dict(to_dict(m)) has a history equal to m's
\* entry by entry (operation, operands, result, timestamp) in the same order,
\* and a timestamp equal to m's.
C11_MementoRoundTrip ==
    memo.stage = "rebuilt" =>
        /\ Len(memo.rebuilt.history) = Len(memo.memento.history)
        /\ \A i \in 1..Len(memo.memento.history) :
             memo.rebuilt.history[i] = memo.memento.history[i]
        /\ memo.rebuilt.timestamp = memo.memento.timestamp

C11_Witness ==
    /\ memo.stage = "rebuilt"
    /\ Len(memo.memento.history) = 2
    /\ memo.memento.history[1] # memo.memento.history[2]
    /\ memo.memento.timestamp % Micro # 0

\* C12: a Calculator built with a configuration given a max_history_size or a
\* max_input_value that is zero or negative, or a negative precision, fails
\* with ConfigurationError; a configuration given valid values (precision 0
\* included) keeps exactly these values.
C12_ConfigValidation ==
    config.stage = "constructed" =>
        LET g == config.given
            bad == \/ (g.max_history_size # <<>> /\ g.max_history_size[1] <= 0)
                   \/ (g.max_input_value # <<>> /\ g.max_input_value[1] <= 0)
                   \/ (g.precision # <<>> /\ g.precision[1] < 0)
            allGiven == /\ g.max_history_size # <<>>
                        /\ g.max_input_value # <<>>
                        /\ g.precision # <<>>
        IN /\ bad => config.error = "ConfigurationError"
           /\ (allGiven /\ ~bad) =>
                /\ config.error = "ok"
                /\ config.fields.max_history_size = g.max_history_size[1]
                /\ config.fields.max_input_value = g.max_input_value[1]
                /\ config.fields.precision = g.precision[1]

\* the positions of o in the observer list obs
Positions(obs, o) == {i \in 1..Len(obs) : obs[i] = o}

\* C13: remove_observer(o) for an o that is not registered fails with
\* ValueError and leaves the observers unchanged; for a registered o it drops
\* the earliest occurrence of o only and keeps the order of the others, so an
\* observer added twice and removed once is still registered once.
C13_RemoveObserver ==
    [][(ret'.call = "remove_observer" /\ budget' = budget - 1) =>
         LET o == ret'.args[1]
             at == Positions(observers, o)
         IN IF at = {}
            THEN /\ ret'.outcome = "ValueError"
                 /\ observers' = observers
            ELSE LET k == CHOOSE i \in at : \A j \in at : i <= j
                 IN /\ ret'.outcome = "ok"
                    /\ observers' = SubSeq(observers, 1, k - 1)
                                      \o SubSeq(observers, k + 1, Len(observers))
                    /\ Cardinality(Positions(observers', o)) = Cardinality(at) - 1]_vars

C13_Witness ==
    /\ ret.call = "remove_observer"
    /\ ret.outcome = "ok"
    /\ ret.args = <<"AutoSaveObserver">>
    /\ observers = <<"LoggingObserver", "AutoSaveObserver">>

\* the line is `exit`, in any case
ExitLine(line) == line \in {Line(FALSE, <<"exit">>), Line(FALSE, <<"EXIT">>),
                            Line(FALSE, <<"Exit">>)}

\* three tokens, the second and the third numeric
WellFormed(line) == /\ Len(line.words) = 3
                    /\ line.words[2] \in {"0", "0.0", "1", "2", "3", "10"}
                    /\ line.words[3] \in {"0", "0.0", "1", "2", "3", "10"}

\* C14: the REPL loop ends only on a line that is `exit` in any case; every
\* other line prints exactly one line and the loop goes on: `Invalid input`
\* for a line that is not three tokens with numeric second and third tokens,
\* `Unknown operation` for a well-formed line with another operation name,
\* the error text for a division by zero, and one `Result:` line otherwise.
C14_ReplLoop ==
    /\ [](~repl.running => (repl = NoRepl \/ ExitLine(repl.last)))
    /\ [][repl' # repl =>
            LET line == repl'.last
                p == repl'.printed
            IN /\ repl.running
               /\ Len(p) = 1
               /\ repl'.out = Append(repl.out, p[1])
               /\ repl'.running = ~ExitLine(line)
               /\ p[1].kind =
                    IF ExitLine(line) THEN "Exiting"
                    ELSE IF ~WellFormed(line) THEN "Invalid input"
                    ELSE IF line.words[1] \notin {"add", "subtract", "multiply", "divide"}
                    THEN "Unknown operation"
                    ELSE IF line.words[1] = "divide" /\ line.words[3] \in {"0", "0.0"}
                    THEN "error"
                    ELSE "Result"
               /\ p[1].kind = "error" => p[1].text = <<"Division by zero is not allowed.">>
               /\ line = Line(FALSE, <<"divide", "10", "2">>) => p[1].value = Float(5)]_vars

C14_Witness ==
    /\ repl.running
    /\ repl.nlines >= 2
    /\ repl.last = Line(FALSE, <<"divide", "1", "0">>)
    /\ repl.printed = <<Printed("error", NoValue, <<"Division by zero is not allowed.">>)>>
    /\ \E i \in 1..Len(repl.out) : repl.out[i].kind = "Unknown operation"

\* a step from stacks (from, to) to (from2, to2) that pops the top memento
\* of `from`, pushes one memento holding the live history as it was onto
\* `to`, and makes the popped memento's history the live history
Moved(from, to, from2, to2) ==
    /\ from # <<>>
    /\ from2 = SubSeq(from, 1, Len(from) - 1)
    /\ Len(to2) = Len(to) + 1
    /\ SubSeq(to2, 1, Len(to)) = to
    /\ heap'[to2[Len(to2)].history] = heap[history]
    /\ heap'[history'] = heap[from[Len(from)].history]
    /\ Len(from2) + Len(to2) = Len(from) + Len(to)

\* C15: undo() with a non-empty undo_stack returns True, pops the top memento
\* M, pushes one memento holding the pre-undo history onto redo_stack and
\* makes M's history the live history; redo() likewise with the stacks
\* swapped; the two stacks together keep their number of mementos.
C15_UndoRedoMove ==
    [][/\ (ret'.call = "undo" /\ budget' = budget - 1 /\ undo_stack # <<>>) =>
            /\ ret'.outcome = "True"
            /\ Moved(undo_stack, redo_stack, undo_stack', redo_stack')
       /\ (ret'.call = "redo" /\ budget' = budget - 1 /\ redo_stack # <<>>) =>
            /\ ret'.outcome = "True"
            /\ Moved(redo_stack, undo_stack, redo_stack', undo_stack')]_vars

C15_Witness ==
    /\ ret.call = "redo"
    /\ ret.outcome = "True"
    /\ redo_stack # <<>>
    /\ Len(undo_stack) = 1
    /\ Contents # heap[undo_stack[1].history]

\* C16: perform_operation, whether it succeeds or fails, leaves undo_stack
\* and redo_stack and the histories they store unchanged; a redo() right
\* after it, with a memento on redo_stack, succeeds and makes that memento's
\* history the live history.
C16_PerformKeepsStacks ==
    [][/\ ret'.call = "perform_operation" =>
            /\ undo_stack' = undo_stack
            /\ redo_stack' = redo_stack
            /\ Stored(undo_stack)' = Stored(undo_stack)
            /\ Stored(redo_stack)' = Stored(redo_stack)
       /\ (ret.call = "perform_operation" /\ ret'.call = "redo" /\ redo_stack # <<>>) =>
            /\ ret'.outcome = "True"
            /\ heap'[history'] = heap[redo_stack[Len(redo_stack)].history]]_vars

\* a redo() right after a successful perform_operation has dropped the new
\* entry from the live history
C16_Witness ==
    /\ ret.call = "redo"
    /\ ret.outcome = "True"
    /\ before.step = "none"
    /\ undo_stack # <<>>
    /\ LET saved == heap[undo_stack[Len(undo_stack)].history]
       IN /\ saved # <<>>
          /\ saved[Len(saved)].timestamp \in Times
          /\ Contents = <<>>

\* C17: in every state reached from a newly constructed Calculator by the
\* public operations both stacks are empty; every undo() and redo() returns
\* False, and the live history gets shorter only by clear_history or
\* load_history.
C17_StacksStayEmpty ==
    /\ [](undo_stack = <<>> /\ redo_stack = <<>>)
    /\ [][/\ ret'.call \in {"undo", "redo"} => ret'.outcome = "False"
          /\ Len(heap'[history']) < Len(Contents) =>
               ret'.call \in {"clear_history", "load_history"}]_vars

C17_Witness ==
    /\ ret.call = "redo"
    /\ ret.outcome = "False"
    /\ Len(Contents) >= 2
    /\ Contents[Len(Contents)].timestamp \in Times

\* C18: when the update of a registered observer fails during
\* perform_operation, the new Calculation has been appended to the live
\* history and stays there, the observers after the failing one are not
\* updated, and the caller gets an OperationError (the ValidationError, if
\* that is what the observer raised) and no result.
C18_ObserverFailure ==
    [][(ret'.call = "perform_operation" /\ ret'.outcome # "ok" /\ notified' # <<>>) =>
         LET k == Len(notified')
         IN /\ k <= Len(observers)
            /\ \A i \in 1..k : notified'[i].observer = observers[i]
            /\ observers[k] \in RaisingKinds
            /\ history' = history
            /\ heap'[history'] = Append(Contents, notified'[k].calculation)
            /\ ret'.outcome = IF observers[k] = "RaisingObserver"
                              THEN "ValidationError" ELSE "OperationError"
            /\ ret'.value = NoValue]_vars

C18_Witness ==
    /\ ret.call = "perform_operation"
    /\ ret.outcome = "OperationError"
    /\ Len(notified) = 1
    /\ Len(observers) = 2
    /\ observers[1] = "AutoSaveObserver"
    /\ Contents # <<>>
    /\ Contents[Len(Contents)] = notified[1].calculation

\* C19: for every live history, the empty one included, save_history()
\* followed by load_history() succeeds and leaves the live history with the
\* same entries in the same order; neither call changes a stack or the
\* observers.
C19_SaveLoadRoundTrip ==
    [][/\ ret'.call \in {"save_history", "load_history"} =>
            /\ undo_stack' = undo_stack
            /\ redo_stack' = redo_stack
            /\ observers' = observers
       /\ (ret.call = "save_history" /\ ret.outcome = "ok" /\ ret'.call = "load_history") =>
            /\ ret'.outcome = "ok"
            /\ heap'[history'] = Contents]_vars

\* C20: a newly constructed Calculator has both stacks empty, no observers
\* and no strategy; its live history is the persisted history when a
\* well-formed file exists and is empty when there is no file; a file that
\* fails to load does not abort the construction and leaves the history empty.
C20_Constructed ==
    ret.call = "__init__" =>
        /\ ret.outcome = "ok"
        /\ undo_stack = <<>>
        /\ redo_stack = <<>>
        /\ observers = <<>>
        /\ operation_strategy = None
        /\ history_file.kind = "rows" =>
             /\ Len(Contents) = Len(history_file.rows)
             /\ \A i \in 1..Len(Contents) :
                  /\ Entry(Contents[i]) = <<history_file.rows[i].operation,
                                            history_file.rows[i].operand1,
                                            history_file.rows[i].operand2,
                                            history_file.rows[i].result>>
                  /\ IsoFormat(Contents[i].timestamp) = history_file.rows[i].timestamp
        /\ history_file.kind # "rows" => Contents = <<>>

C20_Witness ==
    /\ ret.call = "__init__"
    /\ ret.outcome = "ok"
    /\ history_file.kind = "malformed"
    /\ Contents = <<>>

====
